---------------------------- MODULE Spec2Model ----------------------------
(***************************************************************************)
(* vvg::Renderer (src/src/renderer.cpp, src/src/vvg.hpp): the nanovg       *)
(* Vulkan backend.  The renderer stores the draw calls of a frame and      *)
(* renders them on flush.  The module models the texture registry, the     *)
(* frame session (start / fill / stroke / triangles / cancel / flush),     *)
(* the grow-only buffers and descriptor pool, and the command recording.   *)
(***************************************************************************)
EXTENDS Integers, Sequences, FiniteSets, TLC

VARIABLES
    texID_,              \* unsigned int texID_: the currently highest texture id
    textures_,           \* std::vector<Texture>
    drawDatas_,          \* std::vector<DrawData>
    vertices_,           \* std::vector<NVGvertex>
    width_,              \* viewport width of the last start
    height_,             \* viewport height of the last start
    uniformBuffer_,      \* bufInfo.size of the uniform buffer, 0: not created
    vertexBuffer_,       \* bufInfo.size of the vertex buffer, 0: not created
    descriptorPool_,     \* [valid, maxSets, allocated]
    descriptorPoolSize_, \* current maximal draw calls count
    edgeAA_,             \* setting: edge antialiasing
    swapchain_,          \* TRUE: renders on a swapchain, FALSE: on a framebuffer
    device,              \* limits of the vulkan device the renderer was built for
    inFlight,            \* frames submitted to the device and not yet completed
    alive,               \* FALSE once the process has died of a fault
    session,             \* history: "Idle" or "Accumulating" (spec.md 4.1)
    out                  \* the last call, what it returned and what it handed to the device

vars == <<texID_, textures_, drawDatas_, vertices_, width_, height_,
          uniformBuffer_, vertexBuffer_, descriptorPool_, descriptorPoolSize_,
          edgeAA_, swapchain_, device, inFlight, alive, session, out>>

registryVars == <<texID_, textures_>>
frameVars    == <<drawDatas_, vertices_>>
viewVars     == <<width_, height_>>
poolVars     == <<uniformBuffer_, vertexBuffer_, descriptorPool_, descriptorPoolSize_>>
fixedVars    == <<edgeAA_, swapchain_, device>>

----------------------------------------------------------------------------
(* Integer widths and sizes of the program.                                *)

\* unsigned int is 32 bits wide.  An unsigned value is held as its bit pattern read
\* as a two's complement int: 0 .. IntMax stand for themselves, IntMin .. -1 for
\* 2^31 .. 2^32 - 1.  Conversions between int and unsigned int keep the pattern.
UIntBits == 32
IntMax == (2 ^ (UIntBits - 2) - 1) + 2 ^ (UIntBits - 2)
IntMin == (-IntMax) - 1

\* a < b as unsigned int
UnsignedLess(a, b) ==
    \/ a >= 0 /\ b < 0
    \/ (a >= 0) = (b >= 0) /\ a < b

\* sizeof(UniformData): 2+1+1+4+4+16+16 four-byte cells
SizeofUniformData == 176
\* sizeof(NVGvertex): x, y, u, v
SizeofNVGvertex == 16
\* the id the dummy texture is constructed with: (unsigned int) -1
DummyTextureId == -1

\* (unsigned int) of an int argument: the same bit pattern
ToUnsigned(i) == i


\* the next multiple of align that is >= n
AlignUp(n, align) == ((n + align - 1) \div align) * align

----------------------------------------------------------------------------
(* Values.                                                                 *)

FormatRGBA == "r8g8b8a8Unorm"
FormatA == "r8Unorm"

\* vvg::Texture as constructed by Texture::Texture
Texture(xid, w, h, format) ==
    [id |-> xid, width |-> w, height |-> h, format |-> format]

\* struct Path, default initialized
Path == [fillOffset |-> 0, fillCount |-> 0, strokeOffset |-> 0, strokeCount |-> 0]

\* A float of a matrix cell is held as a tagged value: Num(x) is the number x / 2
\* (floats are counted in halves, so that -0.5 is a value), the other tags are
\* results of float arithmetic that is not evaluated.
Num(x) == <<"num", x>>

\* the integer n counted in halves
Halves(n) == 2 * n

\* the float of an integer literal: 1.0f is Float(1)
Float(n) == Num(Halves(n))

\* float m[4][4] {}: all cells 0
ZeroMat == [r \in 1..4 |-> [c \in 1..4 |-> Num(0)]]

\* m[r][c] = v, rows and columns counted from 0 as in the program
SetCell(m, r, c, v) == [m EXCEPT ![r + 1][c + 1] = v]

\* row r of m, counted from 0
Row(m, r) == m[r + 1]

\* struct DrawData, default initialized (descriptorSet 0: the null handle)
DrawData ==
    [descriptorSet |-> 0,
     uniformData |-> [viewSize |-> <<0, 0>>, type |-> 0, texType |-> 0,
                      innerColor |-> 0, outerColor |-> 0,
                      scissorMat |-> ZeroMat, paintMat |-> ZeroMat],
     texture |-> 0,
     paths |-> << >>,
     triangleOffset |-> 0,
     triangleCount |-> 0]

\* what a call leaves behind for its caller and the device
NoOut ==
    [op |-> "init", ret |-> "void", arg |-> 0, w |-> "unwritten", h |-> "unwritten",
     submits |-> 0, waited |-> FALSE, region |-> << >>, uniformWrites |-> << >>, sets |-> << >>,
     vertexData |-> << >>, cmds |-> << >>, entries |-> << >>, faults |-> {},
     shape |-> << >>]

Out(op, ret, arg) == [NoOut EXCEPT !.op = op, !.ret = ret, !.arg = arg]

\* a draw call's result with the paths or the vertices the call was given
Drawn(op, args, shape) == [Out(op, "void", args) EXCEPT !.shape = shape]


----------------------------------------------------------------------------
(* Texture registry.                                                       *)

NullPtr == "nullptr"

\* a lookup that takes the id for the position in textures_
FindTextureByIndex(id) == IF id \in 1..Len(textures_) THEN id ELSE 0

\* std::find_if over textures_: the first index whose texture has the id, 0 for end()
FindTexture(id) ==
    IF \E i \in 1..Len(textures_) : textures_[i].id = id
    THEN CHOOSE i \in 1..Len(textures_) :
            /\ textures_[i].id = id
            /\ \A j \in 1..(i - 1) : textures_[j].id # id
    ELSE 0

\* whether Renderer::texture(id) is not nullptr
HasTexture(id) == FindTexture(id) # 0

\* Renderer::texture(id): the texture, or nullptr
texture(id) ==
    IF FindTexture(id) = 0 THEN NullPtr ELSE textures_[FindTexture(id)]

\* std::vector::erase of the element at index i
Erase(seq, i) == SubSeq(seq, 1, i - 1) \o SubSeq(seq, i + 1, Len(seq))

\* ++texID_ on an unsigned int
\* a registry that numbers a texture by its position instead
NextTexIDReuse(cur) == Len(textures_) + 1

NextTexID(cur) == IF cur = IntMax THEN IntMin ELSE cur + 1

\* command buffers the Texture constructor submits and waits for: the layout
\* change, and the fill of the image if data is given
TextureCtorSubmits(hasData) == IF hasData THEN 2 ELSE 1

createTexture(format, w, h, hasData) ==
    /\ alive
    /\ texID_' = NextTexID(texID_)
    /\ textures_' = Append(textures_, Texture(texID_', w, h, format))
    /\ out' = [Out("createTexture", texID_', 0) EXCEPT !.submits = TextureCtorSubmits(hasData)]
    /\ UNCHANGED <<frameVars, viewVars, poolVars, fixedVars, inFlight, alive, session>>

\* an erase that drops the found texture and all after it
DeleteFoundToEnd(i) == SubSeq(textures_, 1, i - 1)

\* what deleteTexture leaves of the registry when the id is found at index i
DeleteFound(i) == Erase(textures_, i)

deleteTexture(id) ==
    /\ alive
    /\ IF FindTexture(id) = 0
       THEN /\ textures_' = textures_
            /\ out' = Out("deleteTexture", FALSE, id)
       ELSE /\ textures_' = DeleteFound(FindTexture(id))
            /\ out' = Out("deleteTexture", TRUE, id)
    /\ UNCHANGED <<texID_, frameVars, viewVars, poolVars, fixedVars, inFlight, alive, session>>

\* Texture::update: the part of the image it fills, <<x, y, w, h>>, whatever offset
\* and extent it is given
UpdateRegion(tex, x, y, w, h) == <<0, 0, tex.width, tex.height>>

\* updateTexture(uptr, image, x, y, w, h, data) of the nanovg backend table
updateTexture(image, x, y, w, h) ==
    /\ alive
    /\ LET tex == texture(ToUnsigned(image)) IN
       IF ~HasTexture(ToUnsigned(image))
       THEN out' = Out("updateTexture", 0, image)
       ELSE out' = [Out("updateTexture", 1, image) EXCEPT
                        !.submits = 1, !.region = UpdateRegion(tex, x, y, w, h)]
    /\ UNCHANGED <<registryVars, frameVars, viewVars, poolVars, fixedVars,
                   inFlight, alive, session>>

\* the value getTextureSize stores through h
SizeHeight(tex) == tex.width

\* getTextureSize(uptr, image, w, h) of the nanovg backend table
getTextureSize(image) ==
    /\ alive
    /\ LET tex == texture(ToUnsigned(image)) IN
       IF ~HasTexture(ToUnsigned(image))
       THEN out' = Out("getTextureSize", 0, image)
       ELSE out' = [Out("getTextureSize", 1, image) EXCEPT
                        !.w = tex.width, !.h = SizeHeight(tex)]
    /\ UNCHANGED <<registryVars, frameVars, viewVars, poolVars, fixedVars,
                   inFlight, alive, session>>

----------------------------------------------------------------------------
(* Frame session.                                                          *)

\* a start that sets the viewport and keeps what is stored
startKeeps(width, height) ==
    /\ alive
    /\ width_' = width
    /\ height_' = height
    /\ session' = "Accumulating"
    /\ out' = Out("start", "void", <<width, height>>)
    /\ UNCHANGED <<registryVars, frameVars, poolVars, fixedVars, inFlight, alive>>

start(width, height) ==
    /\ alive
    /\ width_' = width
    /\ height_' = height
    /\ vertices_' = << >>
    /\ drawDatas_' = << >>
    /\ session' = "Accumulating"
    /\ out' = Out("start", "void", <<width, height>>)
    /\ UNCHANGED <<registryVars, poolVars, fixedVars, inFlight, alive>>

\* what Renderer::cancel leaves of the stored draw calls and vertices
CancelFrame == <<drawDatas_, vertices_>>

\* a cancel that gives the buffers back
cancelReleases ==
    /\ alive
    /\ uniformBuffer_' = 0
    /\ vertexBuffer_' = 0
    /\ session' = "Idle"
    /\ out' = Out("cancel", "void", 0)
    /\ UNCHANGED <<registryVars, frameVars, viewVars, descriptorPool_,
                   descriptorPoolSize_, fixedVars, inFlight, alive>>

cancel ==
    /\ alive
    /\ drawDatas_' = CancelFrame[1]
    /\ vertices_' = CancelFrame[2]
    /\ session' = "Idle"
    /\ out' = Out("cancel", "void", 0)
    /\ UNCHANGED <<registryVars, viewVars, poolVars, fixedVars, inFlight, alive>>

\* the paint kinds and texture kinds of parsePaint
typeColor == 1
typeGradient == 2
typeTexture == 3
texTypeRGBA == 1
texTypeA == 2

\* what tex->format() can yield in parsePaint: the format of the texture, or,
\* through a null pointer, a fault or whatever lies at that address
FormatsRead(image) ==
    IF image = 0 THEN {FormatRGBA}
    ELSE IF ~HasTexture(ToUnsigned(image))
    THEN {"fault", FormatRGBA, FormatA}
    ELSE {texture(ToUnsigned(image)).format}

\* a colour is the bit pattern of its floats.  As floats two patterns are equal
\* if they are the same and no NaN, or are the two zeros
NaNBits == IntMax
NegZeroBits == IntMin
FloatEqual(a, b) ==
    /\ a # NaNBits
    /\ b # NaNBits
    /\ (a = b \/ {a, b} = {0, NegZeroBits})

\* a comparison of the colours as floats
SameColorAsFloats(a, b) == FloatEqual(a, b)

\* std::memcmp(&paint.innerColor, &paint.outerColor, ...) == 0
SameColor(a, b) == a = b

\* the type parsePaint stores for a paint
PaintType(paint) ==
    IF paint.image # 0 THEN typeTexture
    ELSE IF SameColor(paint.innerColor, paint.outerColor) THEN typeColor
    ELSE typeGradient

\* nvgTransformInverse(invxform, xform): the six floats it stores in invxform
TransformInverse(xform) == [i \in 1..6 |-> <<"inverse", xform, i - 1>>]

\* sqrt(xform[a] * xform[a] + xform[b] * xform[b]) / fringe
ScissorScale(xform, a, b, fringe) == <<"scale", xform, a, b, fringe>>

\* (strokeWidth * 0.5f + fringe * 0.5f) / fringe
StrokeMult(strokeWidth, fringe) == <<"strokeMult", strokeWidth, fringe>>

\* -0.5f, in halves
MinusHalf == -1

\* a test of the extent for being negative
ScissorOffNegative(scissor) == scissor.extent[1] < 0 \/ scissor.extent[2] < 0

\* whether parsePaint takes the scissor as absent
ScissorOff(scissor) == scissor.extent[1] < MinusHalf \/ scissor.extent[2] < MinusHalf

\* the 2x3 transform t packed into the first two columns of the rows 0..2 of m,
\* and m[2][2] = 1
PackTransform(m, t) ==
    LET m1 == SetCell(m, 0, 0, t[1])
        m2 == SetCell(m1, 0, 1, t[2])
        m3 == SetCell(m2, 1, 0, t[3])
        m4 == SetCell(m3, 1, 1, t[4])
        m5 == SetCell(m4, 2, 0, t[5])
        m6 == SetCell(m5, 2, 1, t[6])
    IN SetCell(m6, 2, 2, Float(1))

\* scissorMat of parsePaint
ScissorMat(paint, scissor, fringe, strokeWidth) ==
    LET off == LET m1 == SetCell(ZeroMat, 3, 0, Float(1))
                   m2 == SetCell(m1, 3, 1, Float(1))
                   m3 == SetCell(m2, 3, 2, Float(1))
               IN SetCell(m3, 3, 3, Float(1))
        on == LET m0 == PackTransform(ZeroMat, TransformInverse(scissor.xform))
                  m1 == SetCell(m0, 3, 0, Num(scissor.extent[1]))
                  m2 == SetCell(m1, 3, 1, Num(scissor.extent[2]))
                  m3 == SetCell(m2, 3, 2, ScissorScale(scissor.xform, 0, 2, fringe))
              IN SetCell(m3, 3, 3, ScissorScale(scissor.xform, 1, 3, fringe))
        s0 == IF ScissorOff(scissor) THEN off ELSE on
        s1 == SetCell(s0, 0, 3, Num(paint.radius))
        s2 == SetCell(s1, 1, 3, Num(paint.feather))
    IN SetCell(s2, 2, 3, Num(strokeWidth))

\* a paintMat with the stroke multiplier in its fourth row, next to the extent
PaintMatFourthRow(paint, fringe, strokeWidth) ==
    LET m0 == PackTransform(ZeroMat, TransformInverse(paint.xform))
        m1 == SetCell(m0, 3, 0, Num(paint.extent[1]))
        m2 == SetCell(m1, 3, 1, Num(paint.extent[2]))
    IN SetCell(m2, 3, 2, StrokeMult(strokeWidth, fringe))

\* paintMat of parsePaint
PaintMat(paint, fringe, strokeWidth) ==
    LET m0 == PackTransform(ZeroMat, TransformInverse(paint.xform))
        m1 == SetCell(m0, 3, 0, Num(paint.extent[1]))
        m2 == SetCell(m1, 3, 1, Num(paint.extent[2]))
    IN SetCell(m2, 0, 3, StrokeMult(strokeWidth, fringe))

\* a parsePaint that leaves the view size of the entry at its default
parsePaintNoViewSize(paint, scissor, fringe, strokeWidth, format) ==
    [DrawData EXCEPT
        !.uniformData = [viewSize |-> <<0, 0>>,
                         type |-> PaintType(paint),
                         texType |-> 0,
                         innerColor |-> paint.innerColor,
                         outerColor |-> paint.outerColor,
                         scissorMat |-> ScissorMat(paint, scissor, fringe, strokeWidth),
                         paintMat |-> PaintMat(paint, fringe, strokeWidth)],
        !.texture = IF paint.image # 0 THEN ToUnsigned(paint.image) ELSE 0]

\* Renderer::parsePaint: the DrawData it appends to drawDatas_ (format: what
\* tex->format() read, used only when paint.image is not 0)
parsePaint(paint, scissor, fringe, strokeWidth, format) ==
    LET kind == PaintType(paint)
        texKind == IF paint.image # 0
                   THEN (IF format = FormatRGBA THEN texTypeRGBA ELSE texTypeA)
                   ELSE 0
    IN [DrawData EXCEPT
            !.uniformData = [viewSize |-> <<width_, height_>>,
                             type |-> kind,
                             texType |-> texKind,
                             innerColor |-> paint.innerColor,
                             outerColor |-> paint.outerColor,
                             scissorMat |-> ScissorMat(paint, scissor, fringe,
                                                       strokeWidth),
                             paintMat |-> PaintMat(paint, fringe, strokeWidth)],
            !.texture = IF paint.image # 0 THEN ToUnsigned(paint.image) ELSE 0]

\* a fill loop that appends the stroke vertices whatever the setting is
RECURSIVE FillPathsAlwaysStroke(_, _, _)
FillPathsAlwaysStroke(paths, done, verts) ==
    IF paths = << >> THEN [paths |-> done, verts |-> verts]
    ELSE LET path == Head(paths)
             v1 == verts \o path.fill
             p1 == [Path EXCEPT !.fillOffset = Len(verts),
                                !.fillCount = Len(path.fill),
                                !.strokeOffset = IF path.stroke = << >> THEN 0 ELSE Len(v1),
                                !.strokeCount = Len(path.stroke)]
         IN FillPathsAlwaysStroke(Tail(paths), Append(done, p1), v1 \o path.stroke)

\* the loop of Renderer::fill over the paths: [paths, verts]
RECURSIVE FillPaths(_, _, _)
FillPaths(paths, done, verts) ==
    IF paths = << >> THEN [paths |-> done, verts |-> verts]
    ELSE LET path == Head(paths)
             p1 == [Path EXCEPT !.fillOffset = Len(verts),
                                !.fillCount = Len(path.fill)]
             v1 == verts \o path.fill
             aa == edgeAA_ /\ Len(path.stroke) > 0
             p2 == IF aa THEN [p1 EXCEPT !.strokeOffset = Len(v1),
                                         !.strokeCount = Len(path.stroke)]
                   ELSE p1
             v2 == IF aa THEN v1 \o path.stroke ELSE v1
         IN FillPaths(Tail(paths), Append(done, p2), v2)

\* a stroke loop that also appends and records the fill vertices of each path
RECURSIVE StrokePathsWithFill(_, _, _)
StrokePathsWithFill(paths, done, verts) ==
    IF paths = << >> THEN [paths |-> done, verts |-> verts]
    ELSE LET path == Head(paths)
             p1 == [Path EXCEPT !.fillOffset = Len(verts),
                                !.fillCount = Len(path.fill),
                                !.strokeOffset = Len(verts) + Len(path.fill),
                                !.strokeCount = Len(path.stroke)]
         IN StrokePathsWithFill(Tail(paths), Append(done, p1),
                                verts \o path.fill \o path.stroke)

\* the loop of Renderer::stroke over the paths: [paths, verts]
RECURSIVE StrokePaths(_, _, _)
StrokePaths(paths, done, verts) ==
    IF paths = << >> THEN [paths |-> done, verts |-> verts]
    ELSE LET path == Head(paths)
             p1 == [Path EXCEPT !.strokeOffset = Len(verts),
                                !.strokeCount = Len(path.stroke)]
         IN StrokePaths(Tail(paths), Append(done, p1), verts \o path.stroke)

\* the arguments of a draw call that parsePaint reads
FillArgs(paint, scissor, fringe) ==
    [paint |-> paint, scissor |-> scissor, fringe |-> fringe]
StrokeArgs(paint, scissor, fringe, strokeWidth) ==
    [paint |-> paint, scissor |-> scissor, fringe |-> fringe,
     strokeWidth |-> strokeWidth]
TrianglesArgs(paint, scissor) == [paint |-> paint, scissor |-> scissor]

\* a draw call that died in parsePaint on the null texture
DrawFault(op, args) ==
    /\ alive' = FALSE
    /\ out' = [Out(op, "fault", args) EXCEPT !.faults = {"parsePaint: null texture"}]
    /\ UNCHANGED <<registryVars, frameVars, viewVars, poolVars, fixedVars, inFlight, session>>

\* a fill that refuses to run outside of a session
fillChecked(paint, scissor, fringe, paths) ==
    /\ alive
    /\ IF session # "Accumulating"
       THEN /\ out' = Out("fill", "InvalidState", 0)
            /\ UNCHANGED <<registryVars, frameVars, viewVars, poolVars, fixedVars,
                           inFlight, alive, session>>
       ELSE LET r == FillPaths(paths, << >>, vertices_) IN
            /\ drawDatas_' = Append(drawDatas_,
                                 [parsePaint(paint, scissor, fringe, fringe, FormatRGBA)
                                    EXCEPT !.paths = r.paths])
            /\ vertices_' = r.verts
            /\ out' = Drawn("fill", FillArgs(paint, scissor, fringe), paths)
            /\ UNCHANGED <<registryVars, viewVars, poolVars, fixedVars,
                           inFlight, alive, session>>

fill(paint, scissor, fringe, paths) ==
    /\ alive
    /\ \E format \in FormatsRead(paint.image) :
         IF format = "fault" THEN DrawFault("fill", FillArgs(paint, scissor, fringe))
         ELSE LET r == FillPaths(paths, << >>, vertices_) IN
              /\ drawDatas_' = Append(drawDatas_,
                                   [parsePaint(paint, scissor, fringe, fringe, format)
                                      EXCEPT !.paths = r.paths])
              /\ vertices_' = r.verts
              /\ out' = Drawn("fill", FillArgs(paint, scissor, fringe), paths)
              /\ UNCHANGED <<registryVars, viewVars, poolVars, fixedVars,
                             inFlight, alive, session>>

\* a stroke that stores one entry for each of its paths
strokePerPath(paint, scissor, fringe, strokeWidth, paths) ==
    /\ alive
    /\ LET r == StrokePaths(paths, << >>, vertices_) IN
       /\ drawDatas_' = drawDatas_ \o
              [i \in 1..Len(r.paths) |->
                 [parsePaint(paint, scissor, fringe, strokeWidth, FormatRGBA)
                    EXCEPT !.paths = <<r.paths[i]>>]]
       /\ vertices_' = r.verts
       /\ out' = Drawn("stroke",
                   StrokeArgs(paint, scissor, fringe, strokeWidth), paths)
       /\ UNCHANGED <<registryVars, viewVars, poolVars, fixedVars,
                      inFlight, alive, session>>

stroke(paint, scissor, fringe, strokeWidth, paths) ==
    /\ alive
    /\ \E format \in FormatsRead(paint.image) :
         IF format = "fault" THEN DrawFault("stroke", StrokeArgs(paint, scissor, fringe, strokeWidth))
         ELSE LET r == StrokePaths(paths, << >>, vertices_) IN
              /\ drawDatas_' = Append(drawDatas_,
                                   [parsePaint(paint, scissor, fringe, strokeWidth, format)
                                      EXCEPT !.paths = r.paths])
              /\ vertices_' = r.verts
              /\ out' = Drawn("stroke",
                            StrokeArgs(paint, scissor, fringe, strokeWidth), paths)
              /\ UNCHANGED <<registryVars, viewVars, poolVars, fixedVars,
                             inFlight, alive, session>>

\* a triangles call that records its vertices as the fill range of a path
trianglesAsPath(paint, scissor, verts) ==
    /\ alive
    /\ drawDatas_' = Append(drawDatas_,
                         [parsePaint(paint, scissor, Halves(1), Halves(1), FormatRGBA) EXCEPT
                              !.paths = <<[Path EXCEPT !.fillOffset = Len(vertices_),
                                                       !.fillCount = Len(verts)]>>])
    /\ vertices_' = vertices_ \o verts
    /\ out' = Drawn("triangles", TrianglesArgs(paint, scissor), verts)
    /\ UNCHANGED <<registryVars, viewVars, poolVars, fixedVars,
                   inFlight, alive, session>>

\* a triangles call that records the offset after it has appended its vertices
trianglesOffsetAfter(paint, scissor, verts) ==
    /\ alive
    /\ drawDatas_' = Append(drawDatas_,
                         [parsePaint(paint, scissor, Halves(1), Halves(1), FormatRGBA) EXCEPT
                              !.triangleOffset = Len(vertices_ \o verts),
                              !.triangleCount = Len(verts)])
    /\ vertices_' = vertices_ \o verts
    /\ out' = Drawn("triangles", TrianglesArgs(paint, scissor), verts)
    /\ UNCHANGED <<registryVars, viewVars, poolVars, fixedVars,
                   inFlight, alive, session>>

triangles(paint, scissor, verts) ==
    /\ alive
    /\ \E format \in FormatsRead(paint.image) :
         IF format = "fault" THEN DrawFault("triangles", TrianglesArgs(paint, scissor))
         ELSE /\ drawDatas_' = Append(drawDatas_,
                                   [parsePaint(paint, scissor, Halves(1), Halves(1), format) EXCEPT
                                        !.triangleOffset = Len(vertices_),
                                        !.triangleCount = Len(verts)])
              /\ vertices_' = vertices_ \o verts
              /\ out' = Drawn("triangles", TrianglesArgs(paint, scissor), verts)
              /\ UNCHANGED <<registryVars, viewVars, poolVars, fixedVars,
                             inFlight, alive, session>>


----------------------------------------------------------------------------
(* Command recording.                                                      *)

fanPipeline == 1
stripPipeline == 2
listPipeline == 3

CmdBindVertexBuffers == [c |-> "bindVertexBuffers", a |-> 0, b |-> 0]
CmdBindDescriptorSets(set) == [c |-> "bindDescriptorSets", a |-> set, b |-> 0]
CmdBindPipeline(pipeline) == [c |-> "bindPipeline", a |-> pipeline, b |-> 0]
CmdDraw(count, first) == [c |-> "draw", a |-> count, b |-> first]

\* whether record binds the pipeline before a draw that needs it
\* a record that binds the pipeline before every draw
AlwaysBind(bound, pipeline) == TRUE

NeedsBind(bound, pipeline) == bound # pipeline

\* a draw that binds its pipeline only while no pipeline is bound
DrawBindsOnce(st, pipeline, count, first) ==
    [bound |-> IF st.bound = 0 THEN pipeline ELSE st.bound,
     cmds |-> (IF st.bound = 0
               THEN Append(st.cmds, CmdBindPipeline(pipeline)) ELSE st.cmds)
              \o <<CmdDraw(count, first)>>]

\* one draw of record with its pipeline bind: [bound, cmds]
DrawWith(st, pipeline, count, first) ==
    [bound |-> pipeline,
     cmds |-> (IF NeedsBind(st.bound, pipeline)
               THEN Append(st.cmds, CmdBindPipeline(pipeline)) ELSE st.cmds)
              \o <<CmdDraw(count, first)>>]

\* the loop of record over the paths of one DrawData
RECURSIVE RecordPaths(_, _)
RecordPaths(paths, st) ==
    IF paths = << >> THEN st
    ELSE LET path == Head(paths)
             s1 == IF path.fillCount > 0
                   THEN DrawWith(st, fanPipeline, path.fillCount, path.fillOffset)
                   ELSE st
             s2 == IF path.strokeCount > 0
                   THEN DrawWith(s1, stripPipeline, path.strokeCount, path.strokeOffset)
                   ELSE s1
         IN RecordPaths(Tail(paths), s2)

\* the loop of record over drawDatas_
RECURSIVE RecordDatas(_, _)
RecordDatas(datas, st) ==
    IF datas = << >> THEN st
    ELSE LET data == Head(datas)
             s0 == [st EXCEPT !.cmds = Append(@, CmdBindDescriptorSets(data.descriptorSet))]
             s1 == RecordPaths(data.paths, s0)
             s2 == IF data.triangleCount > 0
                   THEN DrawWith(s1, listPipeline, data.triangleCount, data.triangleOffset)
                   ELSE s1
         IN RecordDatas(Tail(datas), s2)

\* a record that binds the vertex buffer after the draws
recordVertexBufferLast(datas) ==
    Append(RecordDatas(datas, [bound |-> 0, cmds |-> << >>]).cmds, CmdBindVertexBuffers)

\* Renderer::record: the commands it records for the given draw datas
record(datas) ==
    RecordDatas(datas, [bound |-> 0, cmds |-> <<CmdBindVertexBuffers>>]).cmds

----------------------------------------------------------------------------
(* Flush.                                                                  *)

\* vpp::Buffer::memorySize(): the size of the memory bound to the buffer, the
\* buffer's size rounded up as the device requires; 0 for a buffer not created
MemorySize(size) == IF size = 0 THEN 0 ELSE AlignUp(size, device.memoryGranule)

\* the size flush asks of the uniform buffer for n draw datas
UniformSize(n) == SizeofUniformData * n

\* the buffer after the grow step of flush: recreated with the needed size if its
\* memory is smaller, kept otherwise
\* a grow step that recreates the buffer with the needed size every time
GrowBufferExact(size, needed) == needed

GrowBuffer(size, needed) == IF MemorySize(size) < needed THEN needed ELSE size

\* update.alignUniform(): the offset moved up to minUniformBufferOffsetAlignment
AlignUniform(offset) == AlignUp(offset, device.minUniformBufferOffsetAlignment)

\* update.offset() of the i-th draw data (1-based) in the loop of flush
RECURSIVE UniformOffset(_)
UniformOffset(i) ==
    IF i = 1 THEN AlignUniform(0)
    ELSE AlignUniform(UniformOffset(i - 1) + SizeofUniformData)

\* a pool step that recreates the pool when it is too small and never resets it
PoolStepNoReset(n) ==
    IF n > descriptorPoolSize_
    THEN [valid |-> TRUE, maxSets |-> n, allocated |-> 0]
    ELSE descriptorPool_

\* the descriptor pool after the pool step of flush for n draw datas
PoolStep(n) ==
    IF n > descriptorPoolSize_
    THEN [valid |-> TRUE, maxSets |-> n, allocated |-> 0]
    ELSE IF descriptorPool_.valid
    THEN [descriptorPool_ EXCEPT !.allocated = 0]
    ELSE descriptorPool_

PoolSizeStep(n) == IF n > descriptorPoolSize_ THEN n ELSE descriptorPoolSize_

\* the image view flush binds for a draw data: the dummy texture's, or the one of
\* texture(data.texture), which is read through a null pointer if there is none
ImageView(data) ==
    IF data.texture = 0 THEN [of |-> "dummyTexture_", id |-> DummyTextureId]
    ELSE IF ~HasTexture(data.texture) THEN [of |-> "nullptr", id |-> 0]
    ELSE [of |-> "texture", id |-> texture(data.texture).id]

\* the faults a flush of the stored frame runs into
FlushFaults(ub, vb) ==
    {"uniform write past the buffer" : i \in
        {j \in 1..Len(drawDatas_) :
            UniformOffset(j) + SizeofUniformData > MemorySize(ub)}}
    \cup {"image view of a null texture" : i \in
        {j \in 1..Len(drawDatas_) :
            drawDatas_[j].texture # 0 /\ ~HasTexture(drawDatas_[j].texture)}}
    \cup (IF vb = 0 THEN {"vertex buffer not created"} ELSE {})

\* state.wait(): the frames in flight once the submitted one has completed
\* a direct path that does not wait for the submitted frame
WaitStateSkipped(n) == n

WaitState(n) == n - 1

\* renderer_.renderBlock: the frame is handed to the presentation, which completes
\* it later
PresentHandOff(n) == n + 1

\* frames in flight when flush returns
AfterRender(n) == IF swapchain_ THEN PresentHandOff(n) ELSE WaitState(n + 1)

\* a cleanup that clears the vertices and keeps the draw datas
FlushKeepsEntries == << << >>, drawDatas_ >>

\* vertices_ and drawDatas_ after the cleanup of flush
FlushCleanup == << << >>, << >> >>

\* a flush that goes on with no draw data
FlushNeverEmpty(datas) == FALSE

\* drawDatas_.empty(), on which flush returns at once
FlushEmpty(datas) == datas = << >>

flush ==
    /\ alive
    /\ session' = "Idle"
    /\ IF FlushEmpty(drawDatas_)
       THEN /\ out' = Out("flush", "void", 0)
            /\ UNCHANGED <<registryVars, frameVars, viewVars, poolVars, fixedVars,
                           inFlight, alive>>
       ELSE LET n == Len(drawDatas_)
                ub == GrowBuffer(uniformBuffer_, UniformSize(n))
                vb == GrowBuffer(vertexBuffer_, Len(vertices_) * SizeofNVGvertex)
                pool == PoolStep(n)
                datas == [i \in 1..n |->
                            [drawDatas_[i] EXCEPT !.descriptorSet = pool.allocated + i]]
                faults == FlushFaults(ub, vb)
                done == [Out("flush", "void", 0) EXCEPT
                            !.submits = 1,
                            !.waited = ~swapchain_,
                            !.uniformWrites = [i \in 1..n |->
                                [offset |-> UniformOffset(i),
                                 data |-> drawDatas_[i].uniformData]],
                            !.sets = [i \in 1..n |->
                                [set |-> datas[i].descriptorSet,
                                 offset |-> UniformOffset(i),
                                 range |-> SizeofUniformData,
                                 image |-> ImageView(drawDatas_[i])]],
                            !.vertexData = vertices_,
                            !.cmds = record(datas),
                            !.entries = datas,
                            !.faults = faults]
            IN \E dies \in (IF faults = {} THEN {FALSE} ELSE {FALSE, TRUE}) :
                 IF dies
                 THEN /\ alive' = FALSE
                      /\ out' = [Out("flush", "fault", 0) EXCEPT !.faults = faults]
                      /\ UNCHANGED <<registryVars, frameVars, viewVars, poolVars,
                                     fixedVars, inFlight>>
                 ELSE /\ uniformBuffer_' = ub
                      /\ vertexBuffer_' = vb
                      /\ descriptorPool_' = [pool EXCEPT !.allocated = @ + n]
                      /\ descriptorPoolSize_' = PoolSizeStep(n)
                      /\ inFlight' = AfterRender(inFlight)
                      /\ vertices_' = FlushCleanup[1]
                      /\ drawDatas_' = FlushCleanup[2]
                      /\ out' = done
                      /\ UNCHANGED <<registryVars, viewVars, fixedVars, alive>>

\* the device completes the oldest frame in flight
GpuComplete ==
    /\ inFlight > 0
    /\ inFlight' = inFlight - 1
    /\ UNCHANGED <<registryVars, frameVars, viewVars, poolVars, fixedVars, alive,
                   session, out>>


----------------------------------------------------------------------------
(* Construction, and the calls a caller makes.                             *)

\* the dummy image Renderer::init creates for unbound image descriptors; it is a
\* member of its own and not an element of textures_
dummyTexture_ == Texture(DummyTextureId, 2, 2, FormatRGBA)

\* a construction that keeps the dummy texture in the registry
InitWithDummyRegistered(devices, targets, settings) ==
    /\ texID_ = 0
    /\ textures_ = <<dummyTexture_>>
    /\ drawDatas_ = << >>
    /\ vertices_ = << >>
    /\ width_ = 0
    /\ height_ = 0
    /\ uniformBuffer_ = 0
    /\ vertexBuffer_ = 0
    /\ descriptorPool_ = [valid |-> FALSE, maxSets |-> 0, allocated |-> 0]
    /\ descriptorPoolSize_ = 0
    /\ edgeAA_ \in settings
    /\ swapchain_ \in targets
    /\ device \in devices
    /\ inFlight = 0
    /\ alive = TRUE
    /\ session = "Idle"
    /\ out = NoOut

\* the state Renderer::Renderer leaves: for a swapchain or for a framebuffer, on
\* one of the given devices
InitWith(devices, targets, settings) ==
    /\ texID_ = 0
    /\ textures_ = << >>
    /\ drawDatas_ = << >>
    /\ vertices_ = << >>
    /\ width_ = 0
    /\ height_ = 0
    /\ uniformBuffer_ = 0
    /\ vertexBuffer_ = 0
    /\ descriptorPool_ = [valid |-> FALSE, maxSets |-> 0, allocated |-> 0]
    /\ descriptorPoolSize_ = 0
    /\ edgeAA_ \in settings
    /\ swapchain_ \in targets
    /\ device \in devices
    /\ inFlight = 0
    /\ alive = TRUE
    /\ session = "Idle"
    /\ out = NoOut

\* the calls of a caller that draws its arguments from the sets of B, stops
\* creating textures at B.maxTexID and storing draw calls at B.maxEntries, draws
\* only after start if B.inSession, and is held back by the presentation while
\* B.maxInFlight frames are in flight
Step(B) ==
    \/ \E t \in B.texInputs :
         /\ texID_ < B.maxTexID
         /\ createTexture(t[1], t[2], t[3], t[4])
    \/ \E id \in B.ids : deleteTexture(id)
    \/ \E image \in B.images, r \in B.regions :
         updateTexture(image, r[1], r[2], r[3], r[4])
    \/ \E image \in B.images : getTextureSize(image)
    \/ \E size \in B.sizes : start(size[1], size[2])
    \/ cancel
    \/ /\ inFlight < B.maxInFlight
       /\ flush
    \/ \E paint \in B.paints, scissor \in B.scissors, fringe \in B.fringes,
          paths \in B.fillPaths :
         /\ Len(drawDatas_) < B.maxEntries
         /\ B.inSession => session = "Accumulating"
         /\ fill(paint, scissor, fringe, paths)
    \/ \E paint \in B.paints, scissor \in B.scissors, fringe \in B.fringes,
          strokeWidth \in B.strokeWidths, paths \in B.strokePaths :
         /\ Len(drawDatas_) < B.maxEntries
         /\ B.inSession => session = "Accumulating"
         /\ stroke(paint, scissor, fringe, strokeWidth, paths)
    \/ \E paint \in B.paints, scissor \in B.scissors, verts \in B.triangleVerts :
         /\ Len(drawDatas_) < B.maxEntries
         /\ B.inSession => session = "Accumulating"
         /\ triangles(paint, scissor, verts)

\* vertices are told apart by a number
PathFill == [fill |-> <<1, 2, 3>>, stroke |-> << >>]
PathStroke == [fill |-> << >>, stroke |-> <<4, 5>>]
PathBoth == [fill |-> <<1, 2, 3>>, stroke |-> <<4, 5>>]
PathStroke3 == [fill |-> << >>, stroke |-> <<4, 5, 6>>]
PathEmpty == [fill |-> << >>, stroke |-> << >>]

\* an NVGpaint: colours as bit patterns, lengths in halves
Paint(image, innerColor, outerColor) ==
    [image |-> image, innerColor |-> innerColor, outerColor |-> outerColor,
     xform |-> "paint.xform", extent |-> <<20, 10>>, radius |-> 4, feather |-> 2]

SolidPaint == Paint(0, 7, 7)
GradientPaint == Paint(0, 7, 9)
ImagePaint(image) == Paint(image, 7, 7)

\* an NVGscissor, extent in halves: the one nanovg passes when no scissor is set
\* (extent -1, -1), and one of 10 x 5
NoScissor == [xform |-> "scissor.xform", extent |-> <<-2, -2>>]
BoxScissor == [xform |-> "scissor.xform", extent |-> <<20, 10>>]

Device(align, granule) ==
    [minUniformBufferOffsetAlignment |-> align, memoryGranule |-> granule]

MaxTexID == 1
MaxEntries == 2

Frames ==
    [texInputs |-> {<<FormatRGBA, 4, 2, FALSE>>, <<FormatA, 3, 3, TRUE>>},
     maxTexID |-> MaxTexID,
     ids |-> {1},
     images |-> {1},
     regions |-> {<<1, 0, 2, 1>>},
     sizes |-> {<<800, 600>>},
     paints |-> {SolidPaint},
     scissors |-> {NoScissor},
     fringes |-> {2},
     strokeWidths |-> {3},
     fillPaths |-> {<<PathFill>>},
     strokePaths |-> {<<PathStroke>>},
     triangleVerts |-> {<<6, 7, 8>>},
     maxEntries |-> MaxEntries,
     inSession |-> FALSE,
     maxInFlight |-> 1]

Init == InitWith({Device(256, 1), Device(16, 64)}, {FALSE}, {FALSE})

Next == Step(Frames)

Spec == Init /\ [][Next]_vars


\* a caller that works the texture registry and draws little, after start
TexMaxTexID == 3
TexMaxEntries == 1

Textures ==
    [texInputs |-> {<<FormatRGBA, 4, 2, FALSE>>},
     maxTexID |-> TexMaxTexID,
     ids |-> (0..TexMaxTexID) \cup {DummyTextureId},
     images |-> (0..TexMaxTexID) \cup {-1},
     regions |-> {<<1, 0, 2, 1>>},
     sizes |-> {<<800, 600>>},
     paints |-> {SolidPaint},
     scissors |-> {NoScissor},
     fringes |-> {2},
     strokeWidths |-> {3},
     fillPaths |-> {<<PathFill>>},
     strokePaths |-> {<<PathStroke>>},
     triangleVerts |-> {<<6, 7, 8>>},
     maxEntries |-> TexMaxEntries,
     inSession |-> TRUE,
     maxInFlight |-> 1]

InitTextures == InitWith({Device(16, 1)}, {FALSE}, {FALSE})

NextTextures == Step(Textures)

SpecTextures == InitTextures /\ [][NextTextures]_vars


\* a caller that draws frames of several shapes, each after start
RecMaxEntries == 4

Shapes ==
    [texInputs |-> {<<FormatRGBA, 4, 2, FALSE>>},
     maxTexID |-> MaxTexID,
     ids |-> {1},
     images |-> {1},
     regions |-> {<<1, 0, 2, 1>>},
     sizes |-> {<<800, 600>>},
     paints |-> {SolidPaint},
     scissors |-> {NoScissor},
     fringes |-> {2},
     strokeWidths |-> {3},
     fillPaths |-> {<<PathFill>>},
     strokePaths |-> {<<PathStroke3>>},
     triangleVerts |-> {<<6, 7, 8>>},
     maxEntries |-> RecMaxEntries,
     inSession |-> TRUE,
     maxInFlight |-> 1]

InitRecord == InitWith({Device(16, 1)}, {FALSE}, {FALSE})

NextRecord == Step(Shapes)

SpecRecord == InitRecord /\ [][NextRecord]_vars


\* a renderer for a swapchain or for a framebuffer, and the device that completes
\* the frames presented
MaxInFlight == 2
TgtMaxEntries == 1

Targets ==
    [texInputs |-> {<<FormatRGBA, 4, 2, FALSE>>},
     maxTexID |-> MaxTexID,
     ids |-> {1},
     images |-> {1},
     regions |-> {<<1, 0, 2, 1>>},
     sizes |-> {<<800, 600>>},
     paints |-> {SolidPaint},
     scissors |-> {NoScissor},
     fringes |-> {2},
     strokeWidths |-> {3},
     fillPaths |-> {<<PathFill>>},
     strokePaths |-> {<<PathStroke>>},
     triangleVerts |-> {<<6, 7, 8>>},
     maxEntries |-> TgtMaxEntries,
     inSession |-> FALSE,
     maxInFlight |-> MaxInFlight]

InitTargets == InitWith({Device(16, 64)}, BOOLEAN, {FALSE})

NextTargets == Step(Targets) \/ GpuComplete

SpecTargets == InitTargets /\ [][NextTargets]_vars


\* a caller that draws with and without start, in two viewports
SesMaxEntries == 2

Sessions ==
    [texInputs |-> {<<FormatRGBA, 4, 2, FALSE>>},
     maxTexID |-> MaxTexID,
     ids |-> {1},
     images |-> {1},
     regions |-> {<<1, 0, 2, 1>>},
     sizes |-> {<<800, 600>>, <<640, 480>>},
     paints |-> {SolidPaint},
     scissors |-> {NoScissor},
     fringes |-> {2},
     strokeWidths |-> {3},
     fillPaths |-> {<<PathFill>>},
     strokePaths |-> {<<PathStroke>>},
     triangleVerts |-> {<<6, 7, 8>>},
     maxEntries |-> SesMaxEntries,
     inSession |-> FALSE,
     maxInFlight |-> 1]

InitSessions == InitWith({Device(16, 1)}, {FALSE}, {FALSE})

NextSessions == Step(Sessions)

SpecSessions == InitSessions /\ [][NextSessions]_vars


\* a caller that draws with paints of all kinds: with and without image, and with
\* colours that are the same bits, the same floats, or neither
PntMaxEntries == 1

Colors == {0, NegZeroBits, NaNBits}

Paints ==
    [texInputs |-> {<<FormatA, 3, 3, TRUE>>},
     maxTexID |-> MaxTexID,
     ids |-> {1},
     images |-> {1},
     regions |-> {<<1, 0, 2, 1>>},
     sizes |-> {<<800, 600>>},
     paints |-> {Paint(0, 0, outer) : outer \in Colors}
                \cup {Paint(0, NaNBits, NaNBits), Paint(1, 0, 0), Paint(1, 0, NaNBits)},
     scissors |-> {NoScissor},
     fringes |-> {2},
     strokeWidths |-> {3},
     fillPaths |-> {<<PathFill>>},
     strokePaths |-> {<<PathStroke>>},
     triangleVerts |-> {<<6, 7, 8>>},
     maxEntries |-> PntMaxEntries,
     inSession |-> TRUE,
     maxInFlight |-> 1]

InitPaints == InitWith({Device(16, 1)}, {FALSE}, {FALSE})

NextPaints == Step(Paints)

SpecPaints == InitPaints /\ [][NextPaints]_vars


\* a caller that draws with scissors of extents -1, -0.5 and 10, in halves
ScsMaxEntries == 1

Scissors ==
    [texInputs |-> {<<FormatRGBA, 4, 2, FALSE>>},
     maxTexID |-> MaxTexID,
     ids |-> {1},
     images |-> {1},
     regions |-> {<<1, 0, 2, 1>>},
     sizes |-> {<<800, 600>>},
     paints |-> {SolidPaint},
     scissors |-> {[xform |-> "scissor.xform", extent |-> <<x, y>>] :
                      x \in {-2, -1, 20}, y \in {-2, -1, 20}},
     fringes |-> {2},
     strokeWidths |-> {3},
     fillPaths |-> {<<PathFill>>},
     strokePaths |-> {<<PathStroke>>},
     triangleVerts |-> {<<6, 7, 8>>},
     maxEntries |-> ScsMaxEntries,
     inSession |-> TRUE,
     maxInFlight |-> 1]

InitScissors == InitWith({Device(16, 1)}, {FALSE}, {FALSE})

NextScissors == Step(Scissors)

SpecScissors == InitScissors /\ [][NextScissors]_vars


\* a caller that draws with and without an image and creates and deletes the
\* texture at any time
ImgMaxEntries == 2

Images ==
    [texInputs |-> {<<FormatRGBA, 4, 2, FALSE>>, <<FormatA, 3, 3, TRUE>>},
     maxTexID |-> MaxTexID,
     ids |-> {1},
     images |-> {1},
     regions |-> {<<1, 0, 2, 1>>},
     sizes |-> {<<800, 600>>},
     paints |-> {SolidPaint, ImagePaint(1)},
     scissors |-> {NoScissor},
     fringes |-> {2},
     strokeWidths |-> {3},
     fillPaths |-> {<<PathFill>>},
     strokePaths |-> {<<PathStroke>>},
     triangleVerts |-> {<<6, 7, 8>>},
     maxEntries |-> ImgMaxEntries,
     inSession |-> TRUE,
     maxInFlight |-> 1]

InitImages == InitWith({Device(16, 1)}, {FALSE}, {FALSE})

NextImages == Step(Images)

SpecImages == InitImages /\ [][NextImages]_vars


\* a caller whose fills carry two paths, one of them with no vertex, and whose
\* strokes and triangle lists carry no path and no vertex
CntMaxEntries == 2

Counts ==
    [texInputs |-> {<<FormatRGBA, 4, 2, FALSE>>},
     maxTexID |-> MaxTexID,
     ids |-> {1},
     images |-> {1},
     regions |-> {<<1, 0, 2, 1>>},
     sizes |-> {<<800, 600>>},
     paints |-> {SolidPaint, GradientPaint},
     scissors |-> {NoScissor},
     fringes |-> {2},
     strokeWidths |-> {3},
     fillPaths |-> {<<PathEmpty, PathFill>>},
     strokePaths |-> {<< >>},
     triangleVerts |-> {<< >>},
     maxEntries |-> CntMaxEntries,
     inSession |-> TRUE,
     maxInFlight |-> 1]

InitCounts == InitWith({Device(16, 1)}, {FALSE}, {FALSE})

NextCounts == Step(Counts)

SpecCounts == InitCounts /\ [][NextCounts]_vars


\* a caller, with edge antialiasing on or off, whose paths carry fill and stroke
\* vertices, only fill vertices, only stroke vertices or none
RngMaxEntries == 2

Ranges ==
    [texInputs |-> {<<FormatRGBA, 4, 2, FALSE>>},
     maxTexID |-> MaxTexID,
     ids |-> {1},
     images |-> {1},
     regions |-> {<<1, 0, 2, 1>>},
     sizes |-> {<<800, 600>>},
     paints |-> {SolidPaint},
     scissors |-> {NoScissor},
     fringes |-> {2},
     strokeWidths |-> {3},
     fillPaths |-> {<<PathBoth, PathEmpty, PathFill>>},
     strokePaths |-> {<<PathBoth, PathStroke3>>},
     triangleVerts |-> {<<6, 7, 8>>},
     maxEntries |-> RngMaxEntries,
     inSession |-> TRUE,
     maxInFlight |-> 1]

InitRanges == InitWith({Device(16, 1)}, {FALSE}, BOOLEAN)

NextRanges == Step(Ranges)

SpecRanges == InitRanges /\ [][NextRanges]_vars


\* a caller, with edge antialiasing on or off, whose fills carry a path with fill
\* and stroke vertices and a path with none, whose strokes carry no path and whose
\* triangle lists may be empty
CmdMaxEntries == 2

Commands ==
    [texInputs |-> {<<FormatRGBA, 4, 2, FALSE>>},
     maxTexID |-> MaxTexID,
     ids |-> {1},
     images |-> {1},
     regions |-> {<<1, 0, 2, 1>>},
     sizes |-> {<<800, 600>>},
     paints |-> {SolidPaint},
     scissors |-> {NoScissor},
     fringes |-> {2},
     strokeWidths |-> {3},
     fillPaths |-> {<<PathBoth, PathEmpty>>},
     strokePaths |-> {<< >>},
     triangleVerts |-> {<< >>, <<6, 7, 8>>},
     maxEntries |-> CmdMaxEntries,
     inSession |-> TRUE,
     maxInFlight |-> 1]

InitCommands == InitWith({Device(16, 1)}, {FALSE}, BOOLEAN)

NextCommands == Step(Commands)

SpecCommands == InitCommands /\ [][NextCommands]_vars

----------------------------------------------------------------------------
(* Claims about the texture registry.                                      *)

\* a step that is a call of op
Called(op) == out'.op = op /\ inFlight' >= inFlight /\ alive'

TextureIds == {textures_[i].id : i \in 1..Len(textures_)}

\* C1: the ids createTexture returns are strictly increasing: the first is 1, each
\* later one is the last returned id plus 1 whatever was deleted in between, none
\* is returned twice (every id in the registry is at most the last returned id,
\* and appears once) and none is 0.
C1_IdsIncrease ==
    /\ [](/\ \A i \in 1..Len(textures_) :
                /\ textures_[i].id # 0
                /\ ~UnsignedLess(texID_, textures_[i].id)
                /\ \A j \in 1..Len(textures_) :
                       i < j => UnsignedLess(textures_[i].id, textures_[j].id)
          /\ out.op = "createTexture" => out.ret = texID_ /\ out.ret # 0)
    /\ [][/\ Called("createTexture") =>
                /\ out'.ret = texID_ + 1
                /\ UnsignedLess(texID_, out'.ret)
                /\ out'.ret \notin TextureIds
                /\ texID_' = out'.ret
                /\ textures_' = Append(textures_, textures_'[Len(textures_')])
                /\ textures_'[Len(textures_')].id = out'.ret
          /\ ~Called("createTexture") => texID_' = texID_]_vars

\* C1 witness: createTexture has returned 2 after texture 1 was deleted
C1_Witness ==
    /\ out.op = "createTexture"
    /\ out.ret = 2
    /\ ~HasTexture(1)

\* C2: deleteTexture(id) returns true and removes exactly the texture with that id
\* when it is in the registry, and returns false leaving the registry unchanged
\* when it is not; it never changes the id counter; so the id is gone afterwards,
\* and a second deleteTexture(id) right after a successful one returns false.
C2_DeleteTexture ==
    [][Called("deleteTexture") =>
          LET id == out'.arg IN
          /\ texID_' = texID_
          /\ \A i \in 1..Len(textures_') : textures_'[i].id # id
          /\ IF HasTexture(id)
             THEN /\ out'.ret = TRUE
                  /\ Len(textures_') = Len(textures_) - 1
                  /\ \A i \in 1..Len(textures_) :
                        textures_[i].id # id =>
                            \E j \in 1..Len(textures_') : textures_'[j] = textures_[i]
                  /\ \A i, j \in 1..Len(textures_') :
                        i < j => UnsignedLess(textures_'[i].id, textures_'[j].id)
             ELSE /\ out'.ret = FALSE
                  /\ textures_' = textures_
          /\ (out.op = "deleteTexture" /\ out.ret = TRUE /\ out.arg = id) =>
                out'.ret = FALSE]_vars

\* C2 witness: create -> 1, delete(1) -> true, delete(1) -> false has run
C2_Witness ==
    /\ out.op = "deleteTexture"
    /\ out.ret = FALSE
    /\ out.arg = 1
    /\ texID_ = 1
    /\ textures_ = << >>

\* C8: textureSize(id) for an id in the registry returns the width and the height
\* the texture was created with, and reports not-found, writing nothing, for an
\* id not in the registry.
C8_TextureSize ==
    out.op = "getTextureSize" =>
        /\ HasTexture(ToUnsigned(out.arg)) =>
             /\ out.ret = 1
             /\ out.w = texture(ToUnsigned(out.arg)).width
             /\ out.h = texture(ToUnsigned(out.arg)).height
        /\ ~HasTexture(ToUnsigned(out.arg)) =>
             /\ out.ret = 0
             /\ out.w = "unwritten"
             /\ out.h = "unwritten"

----------------------------------------------------------------------------
(* Claims about the frame session and the pools.                           *)

DrawOps == {"fill", "stroke", "triangles"}

\* a step that is a flush of a frame with draw calls
NonEmptyFlushStep == out'.op = "flush" /\ drawDatas_ # << >> /\ inFlight' >= inFlight

\* C3: cancel discards the open session: after cancel the entry list and the
\* vertex sequence are empty and the session is Idle.
C3_CancelDiscards ==
    out.op = "cancel" =>
        /\ drawDatas_ = << >>
        /\ vertices_ = << >>
        /\ session = "Idle"

\* C4: in every non-empty flush the uniform buffer covers all entries at their
\* aligned positions: for every entry the aligned offset its uniform record is
\* written at plus sizeof(UniformData) is at most the capacity of the buffer.
C4_UniformCapacity ==
    (out.op = "flush" /\ out.uniformWrites # << >>) =>
        \A i \in DOMAIN out.uniformWrites :
            out.uniformWrites[i].offset + SizeofUniformData <= MemorySize(uniformBuffer_)

\* C5: the uniform buffer capacity, the vertex buffer capacity and the descriptor
\* pool capacity never get lower, in a flush or in any other call, and only a
\* flush changes them.
C5_GrowOnly ==
    [][/\ uniformBuffer_' >= uniformBuffer_
       /\ MemorySize(uniformBuffer_)' >= MemorySize(uniformBuffer_)
       /\ vertexBuffer_' >= vertexBuffer_
       /\ MemorySize(vertexBuffer_)' >= MemorySize(vertexBuffer_)
       /\ descriptorPoolSize_' >= descriptorPoolSize_
       /\ descriptorPool_'.maxSets >= descriptorPool_.maxSets
       /\ out'.op # "flush" => poolVars' = poolVars]_vars

\* C5 witness: a flush of one entry and no more vertices than the buffer holds has
\* run after a flush of two entries
C5_Witness ==
    /\ out.op = "flush"
    /\ Len(out.entries) = 1
    /\ descriptorPoolSize_ = 2
    /\ Len(out.vertexData) * SizeofNVGvertex < vertexBuffer_
    /\ UniformSize(1) < uniformBuffer_

\* C6 as stated: fill, stroke and triangles called while the session is not
\* Accumulating fail with InvalidState and record no entry and no vertices.
C6_InvalidState ==
    [][(out'.op \in DrawOps /\ inFlight' >= inFlight /\ session # "Accumulating") =>
          /\ out'.ret = "InvalidState"
          /\ frameVars' = frameVars]_vars

\* C6 as amended: fill, stroke and triangles do not look at the session: called
\* while it is not Accumulating they report no error and, when they return, have
\* appended exactly one entry, and their vertices, to what was stored, as they do
\* while it is Accumulating.
C6_NoStateCheck ==
    [][(out'.op \in DrawOps /\ inFlight' >= inFlight /\ alive'
            /\ session # "Accumulating") =>
          /\ out'.ret = "void"
          /\ Len(drawDatas_') = Len(drawDatas_) + 1
          /\ SubSeq(drawDatas_', 1, Len(drawDatas_)) = drawDatas_
          /\ Len(vertices_') >= Len(vertices_)
          /\ SubSeq(vertices_', 1, Len(vertices_)) = vertices_
          /\ session' = session]_vars

\* C6 witness: a fill has stored an entry with no session open
C6_Witness ==
    /\ out.op = "fill"
    /\ session = "Idle"
    /\ Len(drawDatas_) = 1
    /\ vertices_ # << >>

\* C9 as stated: start, fill, cancel leaves the capacities unchanged and submits
\* nothing; no call other than a non-empty flush changes a capacity or submits
\* work to the device.
C9_OnlyFlushSubmits ==
    [][~NonEmptyFlushStep =>
          /\ poolVars' = poolVars
          /\ inFlight' = inFlight
          /\ out'.submits = 0]_vars

\* C9 as amended: start, fill, cancel leaves the capacities unchanged and submits
\* nothing; no call other than a non-empty flush changes a capacity, and no call
\* other than a non-empty flush, createTexture (whose Texture constructor submits
\* the layout change of the image) and updateTexture of a texture in the registry
\* (which submits the fill of the image) submits work to the device.
C9_OnlyFlushAndCreate ==
    [][~NonEmptyFlushStep =>
          /\ poolVars' = poolVars
          /\ inFlight' = inFlight
          /\ out'.op \notin {"createTexture", "updateTexture"} => out'.submits = 0
          /\ out'.op = "updateTexture" => out'.submits = out'.ret]_vars

\* C9 witness: start, fill, cancel has run
C9_Witness ==
    /\ out.op = "cancel"
    /\ session = "Idle"
    /\ width_ = 800
    /\ Len(drawDatas_) = 1
    /\ drawDatas_[1].uniformData.viewSize = <<800, 600>>
    /\ drawDatas_[1].paths # << >>

\* C10: with a framebuffer as target, flush returns only after the work it
\* submitted has completed: no frame is in flight when any call runs, at most
\* one frame is ever in flight, and the buffers are written by a flush only
\* while no earlier frame is in flight.
C10_DirectWaits ==
    /\ [](~swapchain_ =>
            /\ inFlight = 0
            /\ (out.op = "flush" /\ out.submits > 0) => out.waited)
    /\ [][(~swapchain_ /\ NonEmptyFlushStep /\ alive') =>
            /\ inFlight = 0
            /\ out'.submits = 1
            /\ out'.waited
            /\ inFlight' = 0]_vars

\* C10 witness: a flush to a framebuffer has submitted and returned
C10_Witness ==
    /\ ~swapchain_
    /\ out.op = "flush"
    /\ out.submits = 1
    /\ out.uniformWrites # << >>
    /\ inFlight = 0

----------------------------------------------------------------------------
(* Claims about command recording.                                         *)

\* the path draws record issues for a list of paths
RECURSIVE PathKinds(_)
PathKinds(paths) ==
    IF paths = << >> THEN << >>
    ELSE (IF Head(paths).fillCount > 0 THEN <<"fill">> ELSE << >>)
         \o (IF Head(paths).strokeCount > 0 THEN <<"stroke">> ELSE << >>)
         \o PathKinds(Tail(paths))

\* the draws record issues for a list of entries
RECURSIVE DrawKinds(_)
DrawKinds(entries) ==
    IF entries = << >> THEN << >>
    ELSE PathKinds(Head(entries).paths)
         \o (IF Head(entries).triangleCount > 0 THEN <<"triangles">> ELSE << >>)
         \o DrawKinds(Tail(entries))

\* the pipelines bound by a command sequence, in order
RECURSIVE Binds(_)
Binds(cmds) ==
    IF cmds = << >> THEN << >>
    ELSE (IF Head(cmds).c = "bindPipeline" THEN <<Head(cmds).a>> ELSE << >>)
         \o Binds(Tail(cmds))

FlushedKinds(kinds) == out.op = "flush" /\ out.cmds # << >> /\ DrawKinds(out.entries) = kinds

\* C7 as stated: for entries whose path draws are [fill, fill, stroke, fill] the
\* recorded commands hold exactly 2 pipeline binds.
C7_TwoBinds ==
    FlushedKinds(<<"fill", "fill", "stroke", "fill">>) => Len(Binds(out.cmds)) = 2

\* C7 as amended: for entries whose path draws are [fill, fill, stroke, fill] the
\* recorded commands hold exactly 3 pipeline binds, not 4: fan, strip, fan; the
\* second of two consecutive fills binds nothing.
C7_ThreeBinds ==
    FlushedKinds(<<"fill", "fill", "stroke", "fill">>) =>
        Binds(out.cmds) = <<fanPipeline, stripPipeline, fanPipeline>>

\* C7 witness: a frame drawing fill, fill, stroke, fill has been recorded
C7_Witness ==
    /\ FlushedKinds(<<"fill", "fill", "stroke", "fill">>)
    /\ Len(out.entries) = 4

----------------------------------------------------------------------------
(* Claims about flush and start.                                           *)

\* a step that is a call of flush
FlushStep == out'.op = "flush" /\ inFlight' >= inFlight

\* C11: a flush with an empty entry list is a no-op: it changes no capacity, does
\* not reset the pool, allocates no descriptor set, writes no buffer, records and
\* submits nothing and leaves the state of the renderer as it was.
C11_EmptyFlush ==
    [][(FlushStep /\ drawDatas_ = << >>) =>
          /\ registryVars' = registryVars
          /\ frameVars' = frameVars
          /\ viewVars' = viewVars
          /\ poolVars' = poolVars
          /\ fixedVars' = fixedVars
          /\ inFlight' = inFlight
          /\ alive'
          /\ out'.submits = 0
          /\ out'.sets = << >>
          /\ out'.uniformWrites = << >>
          /\ out'.vertexData = << >>
          /\ out'.cmds = << >>]_vars

\* C11 witness: a flush with no entries has returned while sets of the flush
\* before it are still allocated from the pool
C11_Witness ==
    /\ out.op = "flush"
    /\ alive
    /\ out.cmds = << >>
    /\ drawDatas_ = << >>
    /\ descriptorPool_.allocated > 0

\* C12: after every flush that returns the entry list and the vertex sequence
\* are empty, so no entry is submitted by two flushes: a flush right after a
\* flush submits nothing.
C12_FlushClears ==
    /\ []((out.op = "flush" /\ alive) =>
            /\ drawDatas_ = << >>
            /\ vertices_ = << >>)
    /\ [][(FlushStep /\ out.op = "flush" /\ alive) =>
            /\ out'.submits = 0
            /\ out'.entries = << >>
            /\ out'.vertexData = << >>
            /\ poolVars' = poolVars]_vars

\* C12 witness: a flush of two entries has returned
C12_Witness ==
    /\ out.op = "flush"
    /\ alive
    /\ out.submits = 1
    /\ Len(out.entries) = 2
    /\ out.vertexData # << >>
    /\ drawDatas_ = << >>

\* the entries as stored by the draw calls: without the descriptor set of a flush
Stored(entries) == [i \in 1..Len(entries) |-> [entries[i] EXCEPT !.descriptorSet = 0]]

----------------------------------------------------------------------------
(* Claims about parsePaint.                                                *)

\* C14: the classification of a paint has exactly one result: 3 (textured)
\* whenever paint.image is not 0, whatever the colours; 1 (colour) when the image
\* is 0 and innerColor and outerColor are the same bit for bit; 2 (gradient)
\* otherwise.  It is read off the entries the draw calls store, which hold the
\* image and the colours of the paint.
C14_PaintKind ==
    \A i \in 1..Len(drawDatas_) :
        LET e == drawDatas_[i]
            u == e.uniformData
        IN /\ u.type \in {1, 2, 3}
           /\ e.texture # 0 => u.type = 3
           /\ (e.texture = 0 /\ u.innerColor = u.outerColor) => u.type = 1
           /\ (e.texture = 0 /\ u.innerColor # u.outerColor) => u.type = 2

\* C14 witness: a paint with no image whose colours are equal as floats and differ
\* in their bits has been stored
C14_Witness ==
    /\ drawDatas_ # << >>
    /\ drawDatas_[1].texture = 0
    /\ drawDatas_[1].uniformData.innerColor = 0
    /\ drawDatas_[1].uniformData.outerColor = NegZeroBits
    /\ drawDatas_[1].uniformData.type = 2

\* the entry the last draw call stored
LastEntry == drawDatas_[Len(drawDatas_)]

\* whether a cell of m holds a float of an inverted transform
HoldsInverse(m) == \E r \in 1..4, c \in 1..4 : m[r][c][1] = "inverse"

\* C15: for a scissor with extent.x < -0.5 or extent.y < -0.5 (extents are in
\* halves: less than -1) the fourth row of the scissor matrix is (1, 1, 1, 1)
\* and no inverse of the scissor transform is in the matrix; for any other
\* scissor the fourth row starts with (extent.x, extent.y) and the inverse of
\* the scissor transform is packed into the first three rows.
C15_ScissorRow ==
    (out.op \in DrawOps /\ alive) =>
        LET sc == out.arg.scissor
            m == LastEntry.uniformData.scissorMat
            inv == TransformInverse(sc.xform)
        IN /\ (sc.extent[1] < -1 \/ sc.extent[2] < -1) =>
                /\ Row(m, 3) = <<Float(1), Float(1), Float(1), Float(1)>>
                /\ ~HoldsInverse(m)
           /\ ~(sc.extent[1] < -1 \/ sc.extent[2] < -1) =>
                /\ Row(m, 3)[1] = Num(sc.extent[1])
                /\ Row(m, 3)[2] = Num(sc.extent[2])
                /\ <<Row(m, 0)[1], Row(m, 0)[2], Row(m, 1)[1], Row(m, 1)[2],
                     Row(m, 2)[1], Row(m, 2)[2]>> = inv

\* C15 witness: a draw call with a scissor of extent (-0.5, 10), which is not
\* below -0.5, has stored its entry
C15_Witness ==
    /\ out.op \in DrawOps
    /\ alive
    /\ out.arg.scissor.extent = <<-1, 20>>
    /\ HoldsInverse(LastEntry.uniformData.scissorMat)

----------------------------------------------------------------------------
(* Claims about the descriptor sets and the textures of a flush.           *)

\* a flush that has uploaded and submitted a frame
Flushed == out.op = "flush" /\ alive /\ out.entries # << >>

\* C16: start(800, 600); fill(solid paint, one path with 3 fill vertices);
\* flush() yields exactly one entry with type 1, uploads those 3 vertices at
\* offset 0 and allocates exactly one descriptor set, bound to the dummy texture;
\* in general a flush allocates exactly one descriptor set per entry and binds
\* the dummy image for every entry with no texture and the entry's own texture
\* image otherwise.
C16_SetPerEntry ==
    Flushed =>
        /\ Len(out.sets) = Len(out.entries)
        /\ descriptorPool_.allocated = Len(out.entries)
        /\ \A i \in 1..Len(out.sets) :
             /\ out.entries[i].descriptorSet = out.sets[i].set
             /\ \A j \in 1..Len(out.sets) : i # j => out.sets[i].set # out.sets[j].set
             /\ out.entries[i].texture = 0 =>
                  out.sets[i].image = [of |-> "dummyTexture_", id |-> DummyTextureId]
             /\ out.entries[i].texture # 0 =>
                  out.sets[i].image = [of |-> "texture", id |-> out.entries[i].texture]
        /\ (/\ Len(out.entries) = 1
            /\ out.entries[1].uniformData.viewSize = <<800, 600>>
            /\ out.entries[1].texture = 0
            /\ out.entries[1].uniformData.innerColor = out.entries[1].uniformData.outerColor
            /\ Len(out.entries[1].paths) = 1
            /\ out.entries[1].paths[1].fillCount = 3) =>
               /\ out.entries[1].uniformData.type = 1
               /\ out.entries[1].paths[1].fillOffset = 0
               /\ out.vertexData = PathFill.fill

\* C20: every nonzero texture id the renderer dereferences is one of a texture in
\* the registry: when a draw call encodes a paint with image # 0 the texture
\* exists, and when a flush binds the texture of an entry it still exists.
C20_NoDanglingTexture ==
    /\ (out.op \in DrawOps /\ out.arg.paint.image # 0) =>
          /\ HasTexture(ToUnsigned(out.arg.paint.image))
          /\ alive
    /\ out.op = "flush" =>
          /\ "image view of a null texture" \notin out.faults
          /\ \A i \in 1..Len(out.sets) : out.sets[i].image.of # "nullptr"

----------------------------------------------------------------------------
(* Claims about the entries of the draw calls.                             *)

\* C17: each fill, stroke or triangles call appends exactly one entry, whatever
\* the number of its paths or vertices (zero included), and changes no earlier
\* entry: the list keeps the order of the calls.
C17_OneEntryPerCall ==
    [][(out'.op \in DrawOps /\ inFlight' >= inFlight /\ alive') =>
          /\ Len(drawDatas_') = Len(drawDatas_) + 1
          /\ SubSeq(drawDatas_', 1, Len(drawDatas_)) = drawDatas_
          /\ drawDatas_'[Len(drawDatas_')].uniformData.outerColor
               = out'.arg.paint.outerColor]_vars

\* C17 witness: a call with no path has stored the first entry and a fill with
\* two paths the second one
C17_Witness ==
    /\ out.op = "fill"
    /\ alive
    /\ Len(drawDatas_) = 2
    /\ drawDatas_[1].paths = << >>
    /\ drawDatas_[1].triangleCount = 0
    /\ drawDatas_[1].uniformData.type = typeGradient
    /\ Len(drawDatas_[2].paths) = 2
    /\ drawDatas_[2].uniformData.type = typeColor

----------------------------------------------------------------------------
(* Claims about the lookup of a texture.                                   *)

LookupOps == {"updateTexture", "getTextureSize"}

\* C18: texture(id) returns the texture with that id exactly when the id was
\* returned by an earlier createTexture and has not been deleted since, and
\* nullptr for id 0 and every other id; an update of an id that is not in the
\* registry returns false and does nothing.
C18_TextureLookup ==
    /\ [](/\ \A id \in Textures.ids :
                /\ HasTexture(id) <=> id \in TextureIds
                /\ HasTexture(id) => texture(id).id = id
          /\ ~HasTexture(0)
          /\ (out.op \in LookupOps /\ alive) =>
                (out.ret = 1 <=> ToUnsigned(out.arg) \in TextureIds))
    /\ [][/\ Called("createTexture") => TextureIds' = TextureIds \cup {out'.ret}
          /\ Called("deleteTexture") => TextureIds' = TextureIds \ {out'.arg}
          /\ ~(Called("createTexture") \/ Called("deleteTexture")) =>
                TextureIds' = TextureIds
          /\ (Called("updateTexture") /\ ToUnsigned(out'.arg) \notin TextureIds) =>
                /\ out'.ret = 0
                /\ out'.submits = 0
                /\ out'.region = << >>
                /\ UNCHANGED <<registryVars, frameVars, viewVars, poolVars,
                               fixedVars, inFlight, session>>]_vars

\* C18 witness: ids 1 and 2 were created and 1 was deleted, and an update of
\* the deleted id has returned false
C18_Witness ==
    /\ out.op = "updateTexture"
    /\ out.arg = 1
    /\ out.ret = 0
    /\ TextureIds = {2}

----------------------------------------------------------------------------
(* Claims about the pipeline binds of record.                              *)

\* the pipeline variant a draw of the given kind needs
KindPipeline(kind) ==
    IF kind = "fill" THEN fanPipeline
    ELSE IF kind = "stroke" THEN stripPipeline ELSE listPipeline

\* the pipeline bound by the latest bind among the first n commands, 0 for none
RECURSIVE LatestBind(_, _)
LatestBind(cmds, n) ==
    IF n <= 0 THEN 0
    ELSE IF cmds[n].c = "bindPipeline" THEN cmds[n].a
    ELSE LatestBind(cmds, n - 1)

\* the number of draws among the first n commands
RECURSIVE DrawCount(_, _)
DrawCount(cmds, n) ==
    IF n <= 0 THEN 0
    ELSE DrawCount(cmds, n - 1) + (IF cmds[n].c = "draw" THEN 1 ELSE 0)

\* the number of maximal runs of equal consecutive elements
RECURSIVE Runs(_)
Runs(seq) ==
    IF seq = << >> THEN 0
    ELSE IF Len(seq) = 1 THEN 1
    ELSE Runs(Tail(seq)) + (IF seq[1] # seq[2] THEN 1 ELSE 0)

\* C19: in one record call a pipeline bind is issued before a draw exactly when
\* the variant the draw needs differs from the one bound by the latest bind of
\* that call (none at its start); so every draw executes with the pipeline of its
\* kind bound (fan for fill, strip for stroke, list for triangles) and the number
\* of binds is the number of maximal runs of consecutive draws of one variant.
C19_BindOnChange ==
    (out.op = "flush" /\ out.cmds # << >>) =>
        LET cmds == out.cmds
            kinds == DrawKinds(out.entries)
        IN /\ DrawCount(cmds, Len(cmds)) = Len(kinds)
           /\ Len(Binds(cmds)) = Runs(kinds)
           /\ \A i \in 1..Len(cmds) :
                 /\ cmds[i].c = "bindPipeline" =>
                       i < Len(cmds) /\ cmds[i + 1].c = "draw"
                 /\ cmds[i].c = "draw" =>
                       LET needed == KindPipeline(kinds[DrawCount(cmds, i)])
                           issued == i > 1 /\ cmds[i - 1].c = "bindPipeline"
                           before == LatestBind(cmds, IF issued THEN i - 2 ELSE i - 1)
                       IN /\ issued <=> before # needed
                          /\ LatestBind(cmds, i - 1) = needed

\* C19 witness: a frame drawing stroke, stroke, triangles, fill has been recorded
\* with three binds
C19_Witness ==
    /\ FlushedKinds(<<"stroke", "stroke", "triangles", "fill">>)
    /\ Binds(out.cmds) = <<stripPipeline, listPipeline, fanPipeline>>

----------------------------------------------------------------------------
(* Claims about the capacities a flush leaves.                             *)

\* the larger of two sizes
Larger(a, b) == IF a >= b THEN a ELSE b

\* C21: a flush that needs more than the capacity of a buffer recreates it with
\* exactly the needed size (176 bytes for each entry, 16 bytes for each vertex)
\* and a flush that needs no more leaves it alone, so that after every flush the
\* size each buffer was created with is the largest size any flush has needed.
C21_ExactCapacity ==
    [][(NonEmptyFlushStep /\ alive') =>
          /\ uniformBuffer_' =
                Larger(uniformBuffer_, UniformSize(Len(drawDatas_)))
          /\ vertexBuffer_' =
                Larger(vertexBuffer_, Len(vertices_) * SizeofNVGvertex)]_vars

\* C22: a non-empty flush recreates the descriptor pool with capacity entryCount
\* when entryCount exceeds the entry count of every earlier flush and resets the
\* existing pool otherwise, in both cases before it allocates its first set; the
\* recorded pool capacity is the largest entry count of all flushes so far and the
\* sets allocated since the creation or the last reset never exceed the capacity.
C22_PoolCapacity ==
    /\ [](/\ descriptorPool_.allocated <= descriptorPool_.maxSets
          /\ descriptorPool_.maxSets = descriptorPoolSize_
          /\ descriptorPool_.valid <=> descriptorPoolSize_ > 0)
    /\ [][(NonEmptyFlushStep /\ alive') =>
             LET n == Len(drawDatas_) IN
             /\ descriptorPoolSize_' = Larger(descriptorPoolSize_, n)
             /\ n > descriptorPoolSize_ =>
                   descriptorPool_' = [valid |-> TRUE, maxSets |-> n, allocated |-> n]
             /\ n <= descriptorPoolSize_ =>
                   descriptorPool_' = [descriptorPool_ EXCEPT !.allocated = n]
             /\ Len(out'.sets) = n
             /\ \A i \in 1..n : out'.sets[i].set = i]_vars

\* C22 witness: a flush of one entry has reset the pool that a flush of two
\* entries has created and filled
C22_Witness ==
    /\ out.op = "flush"
    /\ alive
    /\ Len(out.sets) = 1
    /\ out.sets[1].set = 1
    /\ descriptorPool_ = [valid |-> TRUE, maxSets |-> 2, allocated |-> 1]

----------------------------------------------------------------------------
(* Claims about the vertex ranges of the entries.                          *)

\* the ranges <<offset, count>> with a nonzero count of a list of paths, in order
RECURSIVE PathRanges(_)
PathRanges(paths) ==
    IF paths = << >> THEN << >>
    ELSE (IF Head(paths).fillCount > 0
          THEN << <<Head(paths).fillOffset, Head(paths).fillCount>> >> ELSE << >>)
         \o (IF Head(paths).strokeCount > 0
             THEN << <<Head(paths).strokeOffset, Head(paths).strokeCount>> >> ELSE << >>)
         \o PathRanges(Tail(paths))

\* the ranges with a nonzero count of a list of entries, in order
RECURSIVE EntryRanges(_)
EntryRanges(entries) ==
    IF entries = << >> THEN << >>
    ELSE PathRanges(Head(entries).paths)
         \o (IF Head(entries).triangleCount > 0
             THEN << <<Head(entries).triangleOffset, Head(entries).triangleCount>> >>
             ELSE << >>)
         \o EntryRanges(Tail(entries))

\* whether the ranges, in their order, lie end to end from from up to len
RECURSIVE Tiles(_, _, _)
Tiles(ranges, from, len) ==
    IF ranges = << >> THEN from = len
    ELSE Head(ranges)[1] = from /\ Tiles(Tail(ranges), from + Head(ranges)[2], len)

\* C23: after any sequence of start and draw calls every recorded range with a
\* nonzero count lies inside the vertex sequence, starts where the vertex sequence
\* ended just before its vertices were appended, and the ranges are disjoint, in
\* call order, and cover the vertex sequence exactly.
C23_RangesTile ==
    /\ Tiles(EntryRanges(drawDatas_), 0, Len(vertices_))
    /\ \A i \in 1..Len(EntryRanges(drawDatas_)) :
          EntryRanges(drawDatas_)[i][1] + EntryRanges(drawDatas_)[i][2] <= Len(vertices_)

\* C23 witness: a fill of three paths, one of them with no vertex, and a triangles
\* call have recorded three ranges
C23_Witness ==
    /\ ~edgeAA_
    /\ out.op = "triangles"
    /\ EntryRanges(drawDatas_) = << <<0, 3>>, <<3, 3>>, <<6, 3>> >>
    /\ Len(vertices_) = 9

----------------------------------------------------------------------------
(* Claims about the order of the commands of record.                       *)

\* a command sequence without its pipeline binds
RECURSIVE WithoutPipelineBinds(_)
WithoutPipelineBinds(cmds) ==
    IF cmds = << >> THEN << >>
    ELSE (IF Head(cmds).c = "bindPipeline" THEN << >> ELSE <<Head(cmds)>>)
         \o WithoutPipelineBinds(Tail(cmds))

\* for each entry the bind of its descriptor set and then one draw for each of its
\* ranges with a nonzero count: the fill and then the stroke range of each path in
\* path order, then the triangle range
RECURSIVE SetsAndDraws(_)
SetsAndDraws(entries) ==
    IF entries = << >> THEN << >>
    ELSE LET ranges == EntryRanges(<<Head(entries)>>) IN
         <<CmdBindDescriptorSets(Head(entries).descriptorSet)>>
         \o [i \in 1..Len(ranges) |-> CmdDraw(ranges[i][2], ranges[i][1])]
         \o SetsAndDraws(Tail(entries))

\* C24: record binds the shared vertex buffer exactly once, before every other
\* command; binds each entry's descriptor set exactly once, in entry order and
\* before that entry's draws, also for an entry with no draw; within an entry it
\* issues the path draws in path order, a path's fill draw before its stroke draw,
\* and then the triangle draw; and it issues no draw for a range of count 0.
C24_CommandOrder ==
    (out.op = "flush" /\ out.cmds # << >>) =>
        /\ out.cmds[1] = CmdBindVertexBuffers
        /\ WithoutPipelineBinds(out.cmds) =
              <<CmdBindVertexBuffers>> \o SetsAndDraws(out.entries)
        /\ \A i \in 1..Len(out.cmds) : out.cmds[i].c = "draw" => out.cmds[i].a > 0

\* C24 witness: a stroke with no path, and a fill of a path with vertices and a
\* path with none, have been recorded
C24_Witness ==
    /\ out.op = "flush"
    /\ ~edgeAA_
    /\ WithoutPipelineBinds(out.cmds) =
          <<CmdBindVertexBuffers, CmdBindDescriptorSets(1), CmdBindDescriptorSets(2),
            CmdDraw(3, 0)>>

----------------------------------------------------------------------------
(* Claims about the paint matrix.                                          *)

\* the stroke multiplier of the last draw call: fill passes its fringe as the
\* stroke width, triangles passes 1 for both
CallStrokeMult ==
    IF out.op = "fill" THEN StrokeMult(out.arg.fringe, out.arg.fringe)
    ELSE IF out.op = "stroke" THEN StrokeMult(out.arg.strokeWidth, out.arg.fringe)
    ELSE StrokeMult(Halves(1), Halves(1))

\* C25 as stated: the paint extent and the stroke multiplier
\* (strokeWidth*0.5 + fringe*0.5) / fringe all sit in cells of row index 3 of the
\* 4x4 paint matrix.
C25_FourthRow ==
    (out.op \in DrawOps /\ alive) =>
        LET m == LastEntry.uniformData.paintMat IN
        /\ Row(m, 3)[1] = Num(out.arg.paint.extent[1])
        /\ Row(m, 3)[2] = Num(out.arg.paint.extent[2])
        /\ \E c \in 1..4 : Row(m, 3)[c] = CallStrokeMult

\* C25 as amended: the paint extent sits in row index 3 of the paint matrix, in
\* the cells [3][0] and [3][1], and the stroke multiplier
\* (strokeWidth*0.5 + fringe*0.5) / fringe sits in the cell [0][3], row index 0
\* and column index 3; the other cells of row index 3 are 0.
C25_ExtentRowMultColumn ==
    (out.op \in DrawOps /\ alive) =>
        LET m == LastEntry.uniformData.paintMat IN
        /\ Row(m, 3) = <<Num(out.arg.paint.extent[1]), Num(out.arg.paint.extent[2]),
                         Num(0), Num(0)>>
        /\ Row(m, 0)[4] = CallStrokeMult

\* C25 witness: a stroke with stroke width 1.5 and fringe 1 has stored its entry
C25_Witness ==
    /\ out.op = "stroke"
    /\ alive
    /\ out.arg.strokeWidth = 3
    /\ out.arg.fringe = 2
    /\ LastEntry.uniformData.paintMat[1][4] = <<"strokeMult", 3, 2>>

----------------------------------------------------------------------------
(* Claims about what each draw call records.                               *)

\* a step that is a draw call of the given kind and returns
DrawCall(op) == out'.op = op /\ inFlight' >= inFlight /\ alive'

\* the number of stroke vertices of a list of paths
RECURSIVE StrokeVertexCount(_)
StrokeVertexCount(paths) ==
    IF paths = << >> THEN 0
    ELSE Len(Head(paths).stroke) + StrokeVertexCount(Tail(paths))

\* C26: a stroke call records for every path only a stroke range: every path range
\* of its entry has fillCount = 0 and strokeCount = the path's number of stroke
\* vertices, the entry has no triangle range, and the vertex sequence grows by
\* exactly the sum of the paths' stroke vertex counts; so a stroke entry is never
\* drawn with the fan or the list pipeline.
C26_StrokeRanges ==
    [][DrawCall("stroke") =>
          LET e == drawDatas_'[Len(drawDatas_')]
              paths == out'.shape
          IN /\ Len(e.paths) = Len(paths)
             /\ \A i \in 1..Len(paths) :
                   /\ e.paths[i].fillCount = 0
                   /\ e.paths[i].strokeCount = Len(paths[i].stroke)
                   /\ e.paths[i].strokeCount > 0 =>
                         SubSeq(vertices_', e.paths[i].strokeOffset + 1,
                                e.paths[i].strokeOffset + e.paths[i].strokeCount)
                            = paths[i].stroke
             /\ e.triangleCount = 0
             /\ Len(vertices_') = Len(vertices_) + StrokeVertexCount(paths)
             /\ \A i \in 1..Len(Binds(record(<<e>>))) :
                   Binds(record(<<e>>))[i] = stripPipeline]_vars

\* C26 witness: a stroke of a path with fill and stroke vertices and a path with
\* three stroke vertices has recorded two stroke ranges behind earlier vertices
C26_Witness ==
    /\ out.op = "stroke"
    /\ alive
    /\ Len(out.shape) = 2
    /\ out.shape[1].fill # << >>
    /\ Len(drawDatas_) = 2
    /\ PathRanges(LastEntry.paths) = << <<3, 2>>, <<5, 3>> >>
    /\ Len(vertices_) = 8

\* C27: a triangles call records one entry with an empty list of path ranges and
\* a single triangle range (offset = the length of the vertex sequence before the
\* call, count = the number of vertices given), encoded with fringe = 1 and
\* strokeWidth = 1; record draws it with the list pipeline only, and draws nothing
\* for it when the count is 0.
C27_TriangleRange ==
    [][DrawCall("triangles") =>
          LET e == drawDatas_'[Len(drawDatas_')]
              verts == out'.shape
              drawn == SelectSeq(record(<<e>>), LAMBDA cmd : cmd.c = "draw")
          IN /\ Len(drawDatas_') = Len(drawDatas_) + 1
             /\ e.paths = << >>
             /\ e.triangleOffset = Len(vertices_)
             /\ e.triangleCount = Len(verts)
             /\ vertices_' = vertices_ \o verts
             /\ e.uniformData.scissorMat[3][4] = Float(1)
             /\ e.uniformData.paintMat[1][4] = StrokeMult(Halves(1), Halves(1))
             /\ Binds(record(<<e>>)) =
                   (IF verts = << >> THEN << >> ELSE <<listPipeline>>)
             /\ drawn = (IF verts = << >> THEN << >>
                         ELSE <<CmdDraw(Len(verts), Len(vertices_))>>)]_vars

\* C27 witness: a triangles call with three vertices has stored its entry behind
\* the three vertices of a fill
C27_Witness ==
    /\ out.op = "triangles"
    /\ alive
    /\ Len(out.shape) = 3
    /\ LastEntry.paths = << >>
    /\ LastEntry.triangleOffset = 3
    /\ LastEntry.triangleCount = 3
    /\ Len(drawDatas_) = 2

----------------------------------------------------------------------------
(* Claims about the view size of the entries.                              *)

\* C28: the viewSize of every entry is the (width, height) given to the most
\* recent start before the draw call that created it; a later start does not
\* change what was submitted, and all entries of one flush carry one viewSize.
C28_ViewSize ==
    /\ [][/\ Called("start") => <<width_', height_'>> = out'.arg
          /\ ~Called("start") => <<width_', height_'>> = <<width_, height_>>
          /\ (out'.op \in DrawOps /\ inFlight' >= inFlight /\ alive') =>
                drawDatas_'[Len(drawDatas_')].uniformData.viewSize
                   = <<width_, height_>>
          /\ Called("start") =>
                UNCHANGED <<uniformBuffer_, vertexBuffer_, descriptorPool_, inFlight>>]_vars
    /\ [](out.op = "flush" =>
             /\ \A i, j \in 1..Len(out.entries) :
                   out.entries[i].uniformData.viewSize
                      = out.entries[j].uniformData.viewSize
             /\ \A i \in 1..Len(out.uniformWrites) :
                   out.uniformWrites[i].data.viewSize
                      = out.entries[i].uniformData.viewSize)

\* C28 witness: two entries drawn after start(640, 480) have been flushed after
\* a frame of another session
C28_Witness ==
    /\ out.op = "flush"
    /\ alive
    /\ Len(out.entries) = 2
    /\ out.entries[1].uniformData.viewSize = <<640, 480>>
    /\ out.entries[2].uniformData.viewSize = <<640, 480>>
    /\ descriptorPool_.allocated = 2
    /\ <<width_, height_>> = <<640, 480>>

\* the vertices a fill appends for a list of paths: the fill vertices of each
\* path and, with edge antialiasing (aa), its stroke vertices after them
RECURSIVE FillVertices(_, _)
FillVertices(paths, aa) ==
    IF paths = << >> THEN << >>
    ELSE Head(paths).fill \o (IF aa THEN Head(paths).stroke ELSE << >>)
         \o FillVertices(Tail(paths), aa)

\* C29: a fill call records for every path a fill range (offset = the length of
\* the vertex sequence before the path, count = the path's number of fill
\* vertices) and, if edge antialiasing is enabled and the path has stroke
\* vertices, appends those too and records them as the stroke range of the same
\* path range; with edge antialiasing disabled every path range of a fill entry
\* has strokeCount = 0 and the stroke vertices are not appended.
C29_FillRanges ==
    [][DrawCall("fill") =>
          LET e == drawDatas_'[Len(drawDatas_')]
              paths == out'.shape
          IN /\ Len(e.paths) = Len(paths)
             /\ e.triangleCount = 0
             /\ vertices_' = vertices_ \o FillVertices(paths, edgeAA_)
             /\ \A i \in 1..Len(paths) :
                   LET before == Len(vertices_)
                                   + Len(FillVertices(SubSeq(paths, 1, i - 1), edgeAA_))
                   IN /\ e.paths[i].fillOffset = before
                      /\ e.paths[i].fillCount = Len(paths[i].fill)
                      /\ (edgeAA_ /\ paths[i].stroke # << >>) =>
                            /\ e.paths[i].strokeOffset = before + Len(paths[i].fill)
                            /\ e.paths[i].strokeCount = Len(paths[i].stroke)
                      /\ ~edgeAA_ => e.paths[i].strokeCount = 0
                      /\ paths[i].stroke = << >> => e.paths[i].strokeCount = 0]_vars

\* C29 witness: with edge antialiasing disabled a fill of a path with fill and
\* stroke vertices, a path with no vertex and a path with fill vertices has
\* recorded two fill ranges behind three earlier vertices and no stroke range
C29_Witness ==
    /\ out.op = "fill"
    /\ alive
    /\ ~edgeAA_
    /\ out.shape[1].stroke # << >>
    /\ Len(drawDatas_) = 2
    /\ PathRanges(LastEntry.paths) = << <<3, 3>>, <<6, 3>> >>
    /\ LastEntry.paths[2].fillOffset = 6
    /\ Len(vertices_) = 9

\* C30: whenever a flush of at least one entry reaches the vertex upload and the
\* command recording, the vertex buffer has been created (its capacity is
\* greater than 0), also when the flushed entries carry no vertex at all.
C30_VertexBufferCreated ==
    /\ (out.op = "flush" /\ out.ret = "fault") =>
           "vertex buffer not created" \notin out.faults
    /\ (out.op = "flush" /\ out.ret = "void" /\ out.entries # << >>) =>
           /\ vertexBuffer_ > 0
           /\ "vertex buffer not created" \notin out.faults

\* C31: the dummy texture is never part of the registry: no sequence of
\* createTexture, deleteTexture, texture and textureSize calls, with any id
\* including 0, a negative handle converted to unsigned and the dummy's own id,
\* returns, finds or deletes the dummy texture, so it stays available for every
\* flush.  The registry starts empty, gains only the texture createTexture makes
\* under the id it returns and loses only a texture it holds; while the counter
\* has not wrapped no texture of the registry carries the dummy's id, a lookup
\* or a deletion with that id or with 0 finds nothing, and every flush binds
\* the dummy image for an entry with no texture.
C31_DummyNotRegistered ==
    /\ [](/\ \A i \in 1..Len(textures_) :
                textures_[i].id # DummyTextureId /\ textures_[i].id # 0
          /\ ~HasTexture(DummyTextureId)
          /\ texture(DummyTextureId) = NullPtr
          /\ (out.op = "deleteTexture"
                /\ ToUnsigned(out.arg) \in {0, DummyTextureId}) => out.ret = FALSE
          /\ (out.op \in {"updateTexture", "getTextureSize"}
                /\ ToUnsigned(out.arg) \in {0, DummyTextureId}) => out.ret = 0
          /\ Flushed =>
                \A i \in 1..Len(out.entries) :
                   out.entries[i].texture = 0 =>
                      out.sets[i].image = [of |-> "dummyTexture_", id |-> dummyTexture_.id])
    /\ [][/\ Called("createTexture") =>
                /\ textures_' = Append(textures_, textures_'[Len(textures_')])
                /\ textures_'[Len(textures_')].id = out'.ret
                /\ out'.ret # DummyTextureId
          /\ Called("deleteTexture") =>
                /\ \A i \in 1..Len(textures_') :
                      \E j \in 1..Len(textures_) : textures_'[i] = textures_[j]
                /\ out'.ret = TRUE => ToUnsigned(out'.arg) \in TextureIds
          /\ (~Called("createTexture") /\ ~Called("deleteTexture")) =>
                textures_' = textures_]_vars

\* C31 witness: with two textures in the registry and a third one deleted, a
\* deleteTexture with the dummy's id has returned false and removed nothing
C31_Witness ==
    /\ out.op = "deleteTexture"
    /\ out.arg = DummyTextureId
    /\ out.ret = FALSE
    /\ texID_ = 3
    /\ Len(textures_) = 2
    /\ dummyTexture_.id \notin TextureIds

=============================================================================
